---- MODULE Spec2Model ----
(***************************************************************************)
(* The Grain LFSR in self-shrinking mode, as used by Poseidon              *)
(* (src/src/gadget/poseidon/grain.rs).                                     *)
(*                                                                         *)
(* Bits are modelled as 0/1 (false/true), so that `^` is addition mod 2.   *)
(* The register `state` is a function on 0..79, indexed as the code       *)
(* indexes the bit array.  Every generator instance i has its own copy of  *)
(* the struct fields (state, next_bit), of the position of the operation   *)
(* that is running on it (pc) and of that operation's locals.              *)
(***************************************************************************)
EXTENDS Integers, Sequences, FiniteSets, TLC

\* ------------------------------------------------------------------ bounds
\* number of public queries (next / next_field_element) issued per instance
MaxQueries == 2
\* number of raw-bit pairs one derived-bit request may read in the model
MaxPairs == 24
\* number of sampling attempts one next_field_element call may make in the model
MaxAttempts == 12
\* length of the derived-bit prefix on which two streams are compared
PrefixLen == 4

\* ------------------------------------------------------- program constants
\* const STATE (STATE is a reserved word of TLA+)
STATE_SIZE == 80
WARMUP_ROUNDS == 20

FieldType_Binary == 0
FieldType_PrimeOrder == 1
SboxType_Pow == 0
SboxType_Inv == 1

Bit == {0, 1}
Idx == 0 .. (STATE_SIZE - 1)

\* 2^n, n >= 0
RECURSIVE Pow2(_)
Pow2(n) == IF n = 0 THEN 1 ELSE 2 * Pow2(n - 1)

\* (value >> i) & 1
BitOf(value, i) == (value \div Pow2(i)) % 2

\* ------------------------------------------------------------------ fields
\* The capability contract of FieldExt: NUM_BITS, a zeroable byte buffer
\* Repr (little-endian, `repr_len` bytes) and from_repr.  The modulus is kept
\* as its little-endian byte string.
ReprBytes(n, len) == [k \in 1 .. len |-> (n \div Pow2(8 * (k - 1))) % 256]

\* NUM_BITS = 3, modulus 5
F5 == [name |-> "F5", NUM_BITS |-> 3, repr_len |-> 2, modulus |-> ReprBytes(5, 2)]
\* NUM_BITS = 10, modulus 521
F521 == [name |-> "F521", NUM_BITS |-> 10, repr_len |-> 2, modulus |-> ReprBytes(521, 2)]

\* pasta::Fp, the field of the test: NUM_BITS = 255, modulus
\* 0x40000000000000000000000000000000224698fc094cf91b992d30ed00000001
Fp == [name |-> "Fp", NUM_BITS |-> 255, repr_len |-> 32,
       modulus |-> <<1, 0, 0, 0, 237, 48, 45, 153, 27, 249, 76, 9, 252, 152, 70, 34, 0, 0, 0, 0, 0, 0, 0, 0,
                      0, 0, 0, 0, 0, 0, 0, 64>>]

Repr_default(F) == [k \in 1 .. F.repr_len |-> 0]

\* a < b for little-endian byte strings of the same length
RECURSIVE BytesLess(_, _, _)
BytesLess(a, b, k) ==
    IF k = 0 THEN FALSE
    ELSE IF a[k] # b[k] THEN a[k] < b[k]
    ELSE BytesLess(a, b, k - 1)

\* Option<F>: None is the empty sequence, Some(f) the sequence <<f>>
None == <<>>
Some(f) == <<f>>

\* A field element is held as 16-bit limbs, least significant first.
ToLimbs(bytes) == [j \in 1 .. (Len(bytes) \div 2) |-> bytes[2 * j - 1] + 256 * bytes[2 * j]]

\* F::from_repr: Some(element) iff the buffer is canonical (value < modulus)
from_repr(F, bytes) ==
    IF BytesLess(bytes, F.modulus, F.repr_len) THEN Some(ToLimbs(bytes)) ELSE None

\* F::to_repr: the canonical byte buffer of an element
to_repr(F, f) == [k \in 1 .. F.repr_len |->
                    IF k % 2 = 1 THEN f[(k + 1) \div 2] % 256 ELSE f[k \div 2] \div 256]

\* ------------------------------------------------------------ seed encoder
\* set_bits writing all 16 bits of `value`, whatever the slot's width
set_bits_whole_value(st, offset, len, value) ==
    [j \in Idx |-> IF j >= offset /\ j < offset + 16
                   THEN BitOf(value, j - offset)
                   ELSE st[j]]

\* the closure set_bits of Grain::new: writes `len` bits of `value` at `offset`
set_bits(st, offset, len, value) ==
    [j \in Idx |-> IF j >= offset /\ j < offset + len
                   THEN BitOf(value, j - offset)
                   ELSE st[j]]

\* bitarr![Msb0, u8; 1; STATE]
AllOnes == [j \in Idx |-> 1]

\* the six set_bits calls of Grain::new on the register s0
seed_encode(s0, sbox, F, t, r_f, r_p) ==
    LET s1 == set_bits(s0, 0, 2, FieldType_PrimeOrder)
        s2 == set_bits(s1, 2, 4, sbox)
        s3 == set_bits(s2, 6, 12, F.NUM_BITS % 65536)
        s4 == set_bits(s3, 18, 12, t)
        s5 == set_bits(s4, 30, 10, r_f)
    IN  set_bits(s5, 40, 10, r_p)

\* seed encoding that writes r_f into the slot of t as well
SeedState_t_slot_r_f(sbox, F, t, r_f, r_p) == seed_encode(AllOnes, sbox, F, r_f, r_f, r_p)

\* the register Grain::new builds before the warm-up
SeedState(sbox, F, t, r_f, r_p) == seed_encode(AllOnes, sbox, F, t, r_f, r_p)

\* ------------------------------------------------------------- LFSR engine
\* new_bits with the taps combined by `&` instead of `^`
NewBits_and(st) ==
    LET fb(i) == st[i + 62] * st[i + 51] * st[i + 38] * st[i + 23] * st[i + 13] * st[i]
        RECURSIVE Acc(_)
        Acc(i) == IF i = 8 THEN 0 ELSE fb(i) * Pow2(i) + Acc(i + 1)
    IN  Acc(0)

\* new_bits with the tap at offset 51 taken at offset 50
NewBits_tap50(st) ==
    LET fb(i) == (st[i + 62] + st[i + 50] + st[i + 38] + st[i + 23] + st[i + 13] + st[i]) % 2
        RECURSIVE Acc(_)
        Acc(i) == IF i = 8 THEN 0 ELSE fb(i) * Pow2(i) + Acc(i + 1)
    IN  Acc(0)

\* the u8 new_bits of load_next_8_bits
NewBits(st) ==
    LET fb(i) == (st[i + 62] + st[i + 51] + st[i + 38] + st[i + 23] + st[i + 13] + st[i]) % 2
        RECURSIVE Acc(_)
        Acc(i) == IF i = 8 THEN 0 ELSE fb(i) * Pow2(i) + Acc(i + 1)
    IN  Acc(0)

\* the register kept in a growable vector: a shift that inserts `by` elements
\* at the front and drops none
rotate_right_grow(st, by) ==
    [j \in 0 .. (Cardinality(DOMAIN st) + by - 1) |-> IF j < by THEN 0 ELSE st[j - by]]

\* BitSlice::rotate_right(by) on a slice of any length: the element at index j
\* moves to j + by, the last `by` elements wrap to the front
rotate_right(st, by) ==
    LET n == Cardinality(DOMAIN st)
    IN  [j \in DOMAIN st |-> st[(j + n - by) % n]]

\* load_next_8_bits writing its new bits in reverse order (bit i at 79 - i)
load_next_8_bits_reversed(self) ==
    LET new_bits == NewBits(self.state)
        rot == rotate_right(self.state, 8)
    IN  [state |-> [j \in DOMAIN rot |-> IF j \in (STATE_SIZE - 8) .. (STATE_SIZE - 1)
                                         THEN BitOf(new_bits, (STATE_SIZE - 1) - j)
                                         ELSE rot[j]],
         next_bit |-> self.next_bit - 8]

\* Grain::load_next_8_bits on the struct self = [state, next_bit]: the new
\* bits are computed from the register as it is, the register is rotated in
\* place, and bit i of new_bits overwrites the element at i + STATE - 8
load_next_8_bits(self) ==
    LET new_bits == NewBits(self.state)
        rot == rotate_right(self.state, 8)
    IN  [state |-> [j \in DOMAIN rot |-> IF j \in (STATE_SIZE - 8) .. (STATE_SIZE - 1)
                                         THEN BitOf(new_bits, j - (STATE_SIZE - 8))
                                         ELSE rot[j]],
         next_bit |-> self.next_bit - 8]

\* get_next_bit that never advances the cursor
get_next_bit_stuck(self) ==
    LET s == IF self.next_bit = STATE_SIZE THEN load_next_8_bits(self) ELSE self
    IN  [self |-> [state |-> s.state, next_bit |-> s.next_bit],
         ret |-> s.state[s.next_bit]]

\* get_next_bit with the cursor advanced before the read
get_next_bit_preinc(self) ==
    LET s == IF self.next_bit = STATE_SIZE THEN load_next_8_bits(self) ELSE self
    IN  [self |-> [state |-> s.state, next_bit |-> s.next_bit + 1],
         ret |-> s.state[(s.next_bit + 1) % STATE_SIZE]]

\* Grain::get_next_bit: the struct afterwards and the bit returned
get_next_bit(self) ==
    LET s == IF self.next_bit = STATE_SIZE THEN load_next_8_bits(self) ELSE self
    IN  [self |-> [state |-> s.state, next_bit |-> s.next_bit + 1],
         ret |-> s.state[s.next_bit]]

\* the register indices one set_bits(offset, len, value) call writes
set_bits_indices(offset, len) == {offset + i : i \in 0 .. (len - 1)}

\* the register indices the six set_bits calls of Grain::new write
SeedIndices ==
    set_bits_indices(0, 2) \cup set_bits_indices(2, 4) \cup set_bits_indices(6, 12)
        \cup set_bits_indices(18, 12) \cup set_bits_indices(30, 10) \cup set_bits_indices(40, 10)

\* the register indices load_next_8_bits reads for its new bits
RefillReadIndices == {i + o : i \in 0 .. 7, o \in {62, 51, 38, 23, 13, 0}}

\* the register indices load_next_8_bits writes its new bits to
RefillWriteIndices == {i + STATE_SIZE - 8 : i \in 0 .. 7}

\* a warm-up round that leaves the cursor where the refill put it
warm_up_round_noreset(self) == load_next_8_bits(self)

\* one iteration of the warm-up loop of Grain::new
warm_up_round(self) ==
    [state |-> load_next_8_bits(self).state, next_bit |-> STATE_SIZE]

\* --------------------------------------------------------------- the state
Inst == {1, 2}

VARIABLES
    state,      \* Grain.state of each instance
    next_bit,   \* Grain.next_bit of each instance
    pc,         \* position of the operation running on the instance
    params,     \* the arguments Grain::<F>::new was called with
    warm,       \* warm-up rounds done (the loop variable of Grain::new)
    caller,     \* who runs Iterator::next: "iter" (the user) or "sampler"
    bytes,      \* next_field_element: the Repr buffer being filled
    taken,      \* next_field_element: items taken from self.take(NUM_BITS)
    hist,       \* history: the public queries issued, in order
    out,        \* history: the values the public queries returned
    bits,       \* history: the first PrefixLen derived bits Iterator::next returned
    rawlog,     \* history: raw bits read by the current (or just returned) Iterator::next call
    returned,   \* history: Iterator::next has just returned a derived bit
    refills,    \* history: number of load_next_8_bits calls
    nraw,       \* history: number of raw bits get_next_bit delivered
    firstraw,   \* history: the first raw bit delivered and its refill
    fresh,      \* history: new_bits of the last load_next_8_bits
    drawn,      \* history: derived bits of the current sampling attempt
    attempts,   \* history: sampling attempts of the current call
    callbits,   \* history: derived bits drawn by the current call
    rejects     \* history: buffers rejected by the current call

prog == <<state, next_bit, pc, params, warm, caller, bytes, taken>>
ghost == <<hist, out, bits, rawlog, returned, refills, nraw, firstraw, fresh,
           drawn, attempts, callbits, rejects>>
vars == <<prog, ghost>>

Self(i) == [state |-> state[i], next_bit |-> next_bit[i]]

NoParams == [sbox |-> -1, F |-> F5, t |-> 0, r_f |-> 0, r_p |-> 0]

Init ==
    /\ state = [i \in Inst |-> [j \in Idx |-> 0]]
    /\ next_bit = [i \in Inst |-> 0]
    /\ pc = [i \in Inst |-> "init"]
    /\ params = [i \in Inst |-> NoParams]
    /\ warm = [i \in Inst |-> 0]
    /\ caller = [i \in Inst |-> "none"]
    /\ bytes = [i \in Inst |-> <<>>]
    /\ taken = [i \in Inst |-> 0]
    /\ hist = [i \in Inst |-> <<>>]
    /\ out = [i \in Inst |-> <<>>]
    /\ bits = [i \in Inst |-> <<>>]
    /\ rawlog = [i \in Inst |-> <<>>]
    /\ returned = [i \in Inst |-> FALSE]
    /\ refills = [i \in Inst |-> 0]
    /\ nraw = [i \in Inst |-> 0]
    /\ firstraw = [i \in Inst |-> <<>>]
    /\ fresh = [i \in Inst |-> 0]
    /\ drawn = [i \in Inst |-> <<>>]
    /\ attempts = [i \in Inst |-> 0]
    /\ callbits = [i \in Inst |-> 0]
    /\ rejects = [i \in Inst |-> <<>>]

\* The caller is single-threaded and an operation needs `&mut self`: a public
\* operation starts only when no operation is running on any instance.
Idle == \A j \in Inst : pc[j] \in {"init", "ready"}

\* ------------------------------------------------------------ construction
\* Grain::new building the register in storage shared by all instances:
\* the bits the seed does not set are what the last instance left there
New_shared(i, sbox, F, t, r_f, r_p) ==
    /\ Idle
    /\ pc[i] = "init"
    /\ LET others == {j \in Inst \ {i} : pc[j] # "init"}
           s0 == IF others = {} THEN AllOnes ELSE state[CHOOSE j \in others : TRUE]
       IN  state' = [state EXCEPT ![i] = seed_encode(s0, sbox, F, t, r_f, r_p)]
    /\ next_bit' = [next_bit EXCEPT ![i] = STATE_SIZE]
    /\ params' = [params EXCEPT ![i] = [sbox |-> sbox, F |-> F, t |-> t, r_f |-> r_f, r_p |-> r_p]]
    /\ warm' = [warm EXCEPT ![i] = 0]
    /\ pc' = [pc EXCEPT ![i] = "warmup"]
    /\ UNCHANGED <<caller, bytes, taken, ghost>>

\* Grain::new up to the construction of the struct (seed encoding)
New(i, sbox, F, t, r_f, r_p) ==
    /\ Idle
    /\ pc[i] = "init"
    /\ state' = [state EXCEPT ![i] = SeedState(sbox, F, t, r_f, r_p)]
    /\ next_bit' = [next_bit EXCEPT ![i] = STATE_SIZE]
    /\ params' = [params EXCEPT ![i] = [sbox |-> sbox, F |-> F, t |-> t, r_f |-> r_f, r_p |-> r_p]]
    /\ warm' = [warm EXCEPT ![i] = 0]
    /\ pc' = [pc EXCEPT ![i] = "warmup"]
    /\ UNCHANGED <<caller, bytes, taken, ghost>>

\* Grain::new, one round of `for _ in 0..20`; the struct is returned after the last
WarmUp(i) ==
    /\ pc[i] = "warmup"
    /\ LET s == warm_up_round(Self(i))
       IN  /\ state' = [state EXCEPT ![i] = s.state]
           /\ next_bit' = [next_bit EXCEPT ![i] = s.next_bit]
    /\ warm' = [warm EXCEPT ![i] = warm[i] + 1]
    /\ pc' = [pc EXCEPT ![i] = IF warm[i] + 1 = WARMUP_ROUNDS THEN "ready" ELSE "warmup"]
    /\ refills' = [refills EXCEPT ![i] = refills[i] + 1]
    /\ fresh' = [fresh EXCEPT ![i] = NewBits(state[i])]
    /\ UNCHANGED <<params, caller, bytes, taken, hist, out, bits, rawlog, returned,
                   nraw, firstraw, drawn, attempts, callbits, rejects>>

\* ---------------------------------------------------------- Iterator::next
\* the history kept by every get_next_bit call made by Iterator::next
ReadRaw(i, r) ==
    LET refilled == next_bit[i] = STATE_SIZE
        n == IF refilled THEN refills[i] + 1 ELSE refills[i]
    IN  /\ state' = [state EXCEPT ![i] = r.self.state]
        /\ next_bit' = [next_bit EXCEPT ![i] = r.self.next_bit]
        /\ refills' = [refills EXCEPT ![i] = n]
        /\ fresh' = [fresh EXCEPT ![i] = IF refilled THEN NewBits(state[i]) ELSE fresh[i]]
        /\ nraw' = [nraw EXCEPT ![i] = nraw[i] + 1]
        /\ firstraw' = [firstraw EXCEPT ![i] =
                          IF nraw[i] = 0
                          THEN <<[bit |-> r.ret, refill |-> n, new_bits |-> NewBits(state[i]),
                                  pos |-> r.self.next_bit - 1 - (STATE_SIZE - 8)]>>
                          ELSE firstraw[i]]
        /\ rawlog' = [rawlog EXCEPT ![i] = Append(IF returned[i] THEN <<>> ELSE rawlog[i], r.ret)]

\* the user calls Iterator::next
CallNext(i) ==
    /\ Idle
    /\ pc[i] = "ready"
    /\ Len(hist[i]) < MaxQueries
    /\ hist' = [hist EXCEPT ![i] = Append(hist[i], "next")]
    /\ caller' = [caller EXCEPT ![i] = "iter"]
    /\ pc' = [pc EXCEPT ![i] = "control"]
    /\ rawlog' = [rawlog EXCEPT ![i] = <<>>]
    /\ returned' = [returned EXCEPT ![i] = FALSE]
    /\ UNCHANGED <<state, next_bit, params, warm, bytes, taken, out, bits,
                   refills, nraw, firstraw, fresh, drawn, attempts, callbits, rejects>>

\* the loop condition of Iterator::next without its negation
after_control_inverted(b) == IF b = 0 THEN "output" ELSE "discard"

\* the loop of Iterator::next with an empty body: nothing is discarded
after_control_no_body(b) == IF b = 1 THEN "output" ELSE "control"

\* where Iterator::next goes after the loop condition read bit b
after_control(b) == IF b = 1 THEN "output" ELSE "discard"

\* `while !self.get_next_bit()`: read the first bit of a pair
NextControl(i) ==
    /\ pc[i] = "control"
    /\ (IF returned[i] THEN 0 ELSE Len(rawlog[i])) < 2 * MaxPairs
    /\ LET r == get_next_bit(Self(i))
       IN  /\ ReadRaw(i, r)
           /\ pc' = [pc EXCEPT ![i] = after_control(r.ret)]
    /\ returned' = [returned EXCEPT ![i] = FALSE]
    /\ UNCHANGED <<params, warm, caller, bytes, taken, hist, out, bits,
                   drawn, attempts, callbits, rejects>>

\* the loop body `self.get_next_bit();`: discard the second bit of the pair
NextDiscard(i) ==
    /\ pc[i] = "discard"
    /\ LET r == get_next_bit(Self(i))
       IN  ReadRaw(i, r)
    /\ pc' = [pc EXCEPT ![i] = "control"]
    /\ UNCHANGED <<params, warm, caller, bytes, taken, hist, out, bits, returned,
                   drawn, attempts, callbits, rejects>>

\* set_view with the bits of a byte numbered from its most significant end
set_view_msb0(view, i, bit) ==
    [view EXCEPT ![(i \div 8) + 1] =
        IF bit = 1 /\ BitOf(view[(i \div 8) + 1], 7 - (i % 8)) = 0
        THEN view[(i \div 8) + 1] + Pow2(7 - (i % 8))
        ELSE view[(i \div 8) + 1]]

\* view[i / 8] |= if bit { 1 << (i % 8) } else { 0 }
set_view(view, i, bit) ==
    [view EXCEPT ![(i \div 8) + 1] =
        IF bit = 1 /\ BitOf(view[(i \div 8) + 1], i % 8) = 0
        THEN view[(i \div 8) + 1] + Pow2(i % 8)
        ELSE view[(i \div 8) + 1]]

\* `Some(self.get_next_bit())`: return the second bit of the pair, to the user
\* or to the `for` loop of next_field_element
NextOutput(i) ==
    /\ pc[i] = "output"
    /\ LET r == get_next_bit(Self(i))
           F == params[i].F
       IN  /\ ReadRaw(i, r)
           /\ bits' = [bits EXCEPT ![i] = IF Len(bits[i]) < PrefixLen THEN Append(bits[i], r.ret) ELSE bits[i]]
           /\ IF caller[i] = "iter"
              THEN /\ out' = [out EXCEPT ![i] = Append(out[i], r.ret)]
                   /\ pc' = [pc EXCEPT ![i] = "ready"]
                   /\ caller' = [caller EXCEPT ![i] = "none"]
                   /\ UNCHANGED <<bytes, taken, drawn, callbits>>
              ELSE /\ bytes' = [bytes EXCEPT ![i] = set_view(bytes[i], taken[i], r.ret)]
                   /\ taken' = [taken EXCEPT ![i] = taken[i] + 1]
                   /\ drawn' = [drawn EXCEPT ![i] = Append(drawn[i], r.ret)]
                   /\ callbits' = [callbits EXCEPT ![i] = callbits[i] + 1]
                   /\ pc' = [pc EXCEPT ![i] = IF taken[i] + 1 = F.NUM_BITS THEN "from_repr" ELSE "control"]
                   /\ UNCHANGED <<out, caller>>
    /\ returned' = [returned EXCEPT ![i] = TRUE]
    /\ UNCHANGED <<params, warm, hist, attempts, rejects>>

\* ------------------------------------------------------ next_field_element
\* a conversion that takes the buffer as an element without the range test
sample_unchecked(F, buf) == Some(ToLimbs(buf))

\* `if let Some(f) = F::from_repr(bytes) { break f; }`
sample_result(F, buf) == from_repr(F, buf)

\* `let mut bytes = F::Repr::default();` at the top of every `loop` iteration
fresh_buffer(F, buf) == Repr_default(F)

\* the user calls next_field_element: the first `loop` iteration starts
CallNextFieldElement(i) ==
    /\ Idle
    /\ pc[i] = "ready"
    /\ Len(hist[i]) < MaxQueries
    /\ hist' = [hist EXCEPT ![i] = Append(hist[i], "next_field_element")]
    /\ caller' = [caller EXCEPT ![i] = "sampler"]
    /\ bytes' = [bytes EXCEPT ![i] = fresh_buffer(params[i].F, bytes[i])]
    /\ taken' = [taken EXCEPT ![i] = 0]
    /\ pc' = [pc EXCEPT ![i] = IF params[i].F.NUM_BITS = 0 THEN "from_repr" ELSE "control"]
    /\ drawn' = [drawn EXCEPT ![i] = <<>>]
    /\ attempts' = [attempts EXCEPT ![i] = 1]
    /\ callbits' = [callbits EXCEPT ![i] = 0]
    /\ rejects' = [rejects EXCEPT ![i] = <<>>]
    /\ rawlog' = [rawlog EXCEPT ![i] = <<>>]
    /\ returned' = [returned EXCEPT ![i] = FALSE]
    /\ UNCHANGED <<state, next_bit, params, warm, out, bits,
                   refills, nraw, firstraw, fresh>>

\* the end of a `loop` iteration: break with the element, or start the next
\* iteration with a fresh buffer

FromRepr(i) ==
    /\ pc[i] = "from_repr"
    /\ LET F == params[i].F
           f == sample_result(F, bytes[i])
       IN  IF f # None
           THEN /\ out' = [out EXCEPT ![i] = Append(out[i], f[1])]
                /\ pc' = [pc EXCEPT ![i] = "ready"]
                /\ caller' = [caller EXCEPT ![i] = "none"]
                /\ UNCHANGED <<bytes, taken, drawn, attempts, rejects>>
           ELSE /\ attempts[i] < MaxAttempts
                /\ bytes' = [bytes EXCEPT ![i] = fresh_buffer(F, bytes[i])]
                /\ taken' = [taken EXCEPT ![i] = 0]
                /\ pc' = [pc EXCEPT ![i] = IF F.NUM_BITS = 0 THEN "from_repr" ELSE "control"]
                /\ drawn' = [drawn EXCEPT ![i] = <<>>]
                /\ attempts' = [attempts EXCEPT ![i] = attempts[i] + 1]
                /\ rejects' = [rejects EXCEPT ![i] = Append(rejects[i], bytes[i])]
                /\ UNCHANGED <<out, caller>>
    /\ rawlog' = [rawlog EXCEPT ![i] = <<>>]
    /\ returned' = [returned EXCEPT ![i] = FALSE]
    /\ UNCHANGED <<state, next_bit, params, warm, hist, bits,
                   refills, nraw, firstraw, fresh, callbits>>

\* ---------------------------------------------------------- specifications
Sboxes == {SboxType_Pow, SboxType_Inv}
Fields == {F5, F521}
Widths == {3, 4}
FullRounds == {8}
PartialRounds == {56, 57}

\* Grain::<F>::new(sbox, t, r_f, r_p) for some field and arguments
Construct(i) ==
    \E sbox \in Sboxes, F \in Fields, t \in Widths, r_f \in FullRounds, r_p \in PartialRounds :
        New(i, sbox, F, t, r_f, r_p)

\* a running operation takes its next step
Run(i) ==
    \/ WarmUp(i)
    \/ NextControl(i)
    \/ NextDiscard(i)
    \/ NextOutput(i)
    \/ FromRepr(i)

\* one generator instance, queried for derived bits and field elements
Next ==
    \/ Construct(1)
    \/ CallNext(1)
    \/ CallNextFieldElement(1)
    \/ Run(1)

Spec == Init /\ [][Next]_vars

\* the same, and an operation that was called runs on (the code is sequential
\* and never suspends)
SpecLive == Spec /\ WF_vars(Run(1))

\* two generator instances over the 3-bit field, each queried on its own
PairWidths == {3, 4}
PairFullRounds == {8, 9}

ConstructPair(i) ==
    \E t \in PairWidths, r_f \in PairFullRounds : New(i, SboxType_Pow, F5, t, r_f, 56)

NextPair ==
    \E i \in Inst :
        \/ ConstructPair(i)
        \/ CallNext(i)
        \/ CallNextFieldElement(i)
        \/ Run(i)

SpecPair == Init /\ [][NextPair]_vars

\* tests::grain: Grain::<Fp>::new(SboxType::Pow, 3, 8, 56), then field elements
NextTest ==
    \/ New(1, SboxType_Pow, Fp, 3, 8, 56)
    \/ CallNextFieldElement(1)
    \/ Run(1)

SpecTest == Init /\ [][NextTest]_vars

\* one generator instance whose u16 arguments may exceed their slot widths
\* (12 bits for t, 10 bits for r_f and r_p)
WideWidths == {3, 4099, 65535}
WideFullRounds == {8, 1032}
WidePartialRounds == {56, 1080, 65535}

ConstructWide(i) ==
    \E t \in WideWidths, r_f \in WideFullRounds, r_p \in WidePartialRounds :
        New(i, SboxType_Pow, F5, t, r_f, r_p)

NextWide ==
    \/ ConstructWide(1)
    \/ CallNext(1)
    \/ CallNextFieldElement(1)
    \/ Run(1)

SpecWide == Init /\ [][NextWide]_vars

\* ------------------------------------------------------------------ claims
Last(q) == q[Len(q)]

\* instance i is between seed encoding and the first warm-up round
Encoded(i) == pc[i] = "warmup" /\ warm[i] = 0

\* instance i has been constructed (Grain::new has returned)
Constructed(i) == pc[i] \notin {"init", "warmup"}

\* the slot (offset, len) of register st holds value, most significant bit first
SlotMsbFirst(st, offset, len, value) ==
    \A k \in 0 .. (len - 1) : st[offset + k] = BitOf(value, len - 1 - k)

\* C2 - seed encoding bit order: before the warm-up the six fields sit at
\* offsets 0, 2, 6, 18, 30, 40 with widths 2, 4, 12, 12, 10, 10, and register
\* bit (offset + k) of a slot of width w is bit (w - 1 - k) of the field's value
\* (most significant bit first).
C2_SeedMsbFirst ==
    \A i \in Inst :
        Encoded(i) =>
            /\ SlotMsbFirst(state[i], 0, 2, FieldType_PrimeOrder)
            /\ SlotMsbFirst(state[i], 2, 4, params[i].sbox)
            /\ SlotMsbFirst(state[i], 6, 12, params[i].F.NUM_BITS)
            /\ SlotMsbFirst(state[i], 18, 12, params[i].t)
            /\ SlotMsbFirst(state[i], 30, 10, params[i].r_f)
            /\ SlotMsbFirst(state[i], 40, 10, params[i].r_p)

\* C3 - warm-up discard count: construction performs exactly 20 refills
\* (160 raw bits), delivers none of their bits and resets the cursor to 80 after
\* each; it ends with cursor 80, and the first raw bit ever delivered is bit 0 of
\* the 21st refill.
C3_WarmUpDiscard ==
    \A i \in Inst :
        /\ pc[i] = "warmup" =>
               /\ refills[i] = warm[i]
               /\ refills[i] < 20
               /\ next_bit[i] = 80
               /\ nraw[i] = 0
        /\ (Constructed(i) /\ nraw[i] = 0) =>
               /\ refills[i] = 20
               /\ 8 * refills[i] = 160
               /\ next_bit[i] = 80
        /\ nraw[i] >= 1 =>
               /\ firstraw[i][1].refill = 21
               /\ firstraw[i][1].pos = 0
               /\ firstraw[i][1].bit = BitOf(firstraw[i][1].new_bits, 0)

\* the first raw bit has just been delivered
C3_Witness == nraw[1] = 1 /\ refills[1] = 21

\* C4 - self-shrinking extraction: a derived bit is obtained from consecutive
\* raw-bit pairs (control, candidate); every pair before the last has control 0,
\* the last pair has control 1 and the derived bit is its candidate, so a derived
\* bit consumes 2k raw bits for some k >= 1.
C4_SelfShrinking ==
    \A i \in Inst :
        returned[i] =>
            LET n == Len(rawlog[i])
            IN  /\ n >= 2
                /\ n % 2 = 0
                /\ \A j \in 1 .. ((n \div 2) - 1) : rawlog[i][2 * j - 1] = 0
                /\ rawlog[i][n - 1] = 1
                /\ caller[i] = "sampler" => Last(drawn[i]) = rawlog[i][n]
                /\ caller[i] # "sampler" => Last(out[i]) = rawlog[i][n]

\* a derived bit was returned after at least one discarded pair
C4_Witness == returned[1] /\ Len(rawlog[1]) >= 4

\* sum of d[k] * 2^(k-1): the number whose bit k-1 is the k-th bit of d
RECURSIVE PackValue(_)
PackValue(d) ==
    IF d = <<>> THEN 0 ELSE d[1] + 2 * PackValue(Tail(d))

\* the number a little-endian byte string stands for
RECURSIVE BytesValue(_)
BytesValue(b) ==
    IF b = <<>> THEN 0 ELSE b[1] + 256 * BytesValue(Tail(b))

\* the number an element's limbs stand for
RECURSIVE LimbsValue(_)
LimbsValue(f) ==
    IF f = <<>> THEN 0 ELSE f[1] + 65536 * LimbsValue(Tail(f))

\* the last public call on instance i was next_field_element and has returned
ElementReturned(i) ==
    pc[i] = "ready" /\ hist[i] # <<>> /\ Last(hist[i]) = "next_field_element"

\* C5 - field sampler: every attempt draws exactly NUM_BITS derived bits and
\* packs them little-endian into a zeroed buffer (drawn bit k is bit k mod 8 of
\* byte k / 8, the buffer's value is the sum of bit_k * 2^k); a buffer is
\* rejected iff its value is not below the modulus, and then a new attempt
\* starts from an empty buffer; the element returned is the value of the last
\* attempt and a call of a attempts drew a * NUM_BITS derived bits.
C5_FieldSampler ==
    \A i \in Inst :
        LET F == params[i].F
            p == BytesValue(F.modulus)
        IN  /\ caller[i] = "sampler" =>
                   /\ Len(drawn[i]) = taken[i]
                   /\ taken[i] <= F.NUM_BITS
                   /\ (pc[i] = "from_repr") = (taken[i] = F.NUM_BITS)
                   /\ \A k \in 0 .. (taken[i] - 1) :
                          BitOf(bytes[i][(k \div 8) + 1], k % 8) = drawn[i][k + 1]
                   /\ BytesValue(bytes[i]) = PackValue(drawn[i])
                   /\ callbits[i] = (attempts[i] - 1) * F.NUM_BITS + taken[i]
                   /\ Len(rejects[i]) = attempts[i] - 1
                   /\ \A k \in 1 .. Len(rejects[i]) : BytesValue(rejects[i][k]) >= p
            /\ ElementReturned(i) =>
                   /\ Len(drawn[i]) = F.NUM_BITS
                   /\ LimbsValue(Last(out[i])) = PackValue(drawn[i])
                   /\ PackValue(drawn[i]) < p
                   /\ callbits[i] = attempts[i] * F.NUM_BITS
                   /\ Len(rejects[i]) = attempts[i] - 1
                   /\ \A k \in 1 .. Len(rejects[i]) : BytesValue(rejects[i][k]) >= p

\* a 10-bit element was returned by the third attempt or a later one
C5_Witness ==
    ElementReturned(1) /\ params[1].F = F521 /\ attempts[1] >= 3 /\ Last(out[1])[1] >= 256

\* C6 - sampling validity: every value next_field_element returned is below the
\* modulus, and encoding it to its canonical buffer and decoding that buffer
\* gives the same element.
C6_SamplingValid ==
    \A i \in Inst :
        \A q \in 1 .. Len(out[i]) :
            hist[i][q] = "next_field_element" =>
                LET F == params[i].F
                    f == out[i][q]
                IN  /\ LimbsValue(f) < BytesValue(F.modulus)
                    /\ from_repr(F, to_repr(F, f)) = Some(f)

\* an element was returned after a buffer in the rejection gap was discarded
C6_Witness ==
    ElementReturned(1) /\ Len(rejects[1]) >= 1 /\ Len(out[1]) = Len(hist[1])

\* C7 - extractor termination: a request for the next derived bit reads, after
\* finitely many raw bits, a pair whose control bit is 1 (the pair loop of
\* Iterator::next never spins forever).
C7_ExtractorTerminates ==
    (pc[1] \in {"control", "discard"}) ~> (pc[1] = "output")

\* a request is reading its third pair after two pairs with control bit 0
C7_Witness == pc[1] = "control" /\ ~returned[1] /\ Len(rawlog[1]) = 4

\* C8 - the test's scenario: after Grain::<Fp>::new(Pow, 3, 8, 56) the first
\* next_field_element call returns a value, the second returns one too, and the
\* two values differ.  (Every step of the test adds a raw bit, an attempt, a
\* warm-up round or a call, so no state repeats: as long as a step is possible
\* until two values are returned, both calls return.)
C8_TestScenario ==
    /\ Len(out[1]) < 2 => ENABLED NextTest
    /\ Len(out[1]) >= 2 => out[1][1] # out[1][2]

\* the second call has returned
C8_Witness ==
    /\ params[1] = [sbox |-> SboxType_Pow, F |-> Fp, t |-> 3, r_f |-> 8, r_p |-> 56]
    /\ pc[1] = "ready"
    /\ Len(out[1]) = 2

\* both instances were built from the same arguments and answered the same queries
SameRun(i, j) ==
    /\ i # j
    /\ pc[i] = "ready"
    /\ pc[j] = "ready"
    /\ params[i] = params[j]
    /\ hist[i] = hist[j]

Differences(a, b) ==
    Cardinality({x \in {"sbox", "F", "t", "r_f", "r_p"} :
        CASE x = "sbox" -> a.sbox # b.sbox
          [] x = "F" -> a.F # b.F
          [] x = "t" -> a.t # b.t
          [] x = "r_f" -> a.r_f # b.r_f
          [] OTHER -> a.r_p # b.r_p})

\* both instances are constructed, from seeds that differ in one parameter
OneParameterApart(i, j) ==
    Constructed(i) /\ Constructed(j) /\ Differences(params[i], params[j]) = 1

C10_CursorBound ==
    \A i \in Inst : next_bit[i] >= 0 /\ next_bit[i] <= 80

\* raw bits have been read and the cursor is inside the delivery window
C10_Witness == nraw[1] > 8 /\ next_bit[1] = 75

\* C11 - register width: after construction, warm-up and any number of
\* refills and reads the register is exactly the 80 bits at indices 0..79; a
\* refill rotates and overwrites in place and never grows or shrinks it.
C11_RegisterWidth ==
    \A i \in Inst :
        /\ DOMAIN state[i] = 0 .. 79
        /\ Cardinality(DOMAIN state[i]) = 80
        /\ \A j \in DOMAIN state[i] : state[i][j] \in Bit

\* the register after the warm-up, two more refills and reads from both
C11_Witness ==
    /\ Constructed(1)
    /\ refills[1] >= WARMUP_ROUNDS + 2
    /\ nraw[1] > 8
    /\ DOMAIN state[1] = 0 .. 79

\* a step in which instance i refilled its register
Refilled(i) == refills'[i] # refills[i]

\* the recurrence b[n+80] = b[n] ^ b[n+13] ^ b[n+23] ^ b[n+38] ^ b[n+51] ^ b[n+62]
\* evaluated on the register R, whose element j is b[j]
Feedback(R, n) == (R[n] + R[n + 13] + R[n + 23] + R[n + 38] + R[n + 51] + R[n + 62]) % 2

\* one single-bit step of the 80-bit shift register with that recurrence
LfsrStep(R) == [j \in 0 .. 79 |-> IF j < 79 THEN R[j + 1] ELSE Feedback(R, 0)]

RECURSIVE LfsrSteps(_, _)
LfsrSteps(R, n) == IF n = 0 THEN R ELSE LfsrSteps(LfsrStep(R), n - 1)

\* C12 - refill shift: with R the register before a refill and R' after it,
\* R'[j] = R[j+8] for j in 0..71 and R'[72+i] is new bit i, which is the
\* result of 8 single-bit steps of the shift register.
C12_RefillShift ==
    [][\A i \in Inst :
          Refilled(i) =>
              /\ \A j \in 0 .. 71 : state'[i][j] = state[i][j + 8]
              /\ \A k \in 0 .. 7 : state'[i][72 + k] = Feedback(state[i], k)
              /\ state'[i] = LfsrSteps(state[i], 8)]_vars

\* C13 - refill feedback: a refill computes exactly 8 new bits, and new bit i
\* is R[i] ^ R[i+13] ^ R[i+23] ^ R[i+38] ^ R[i+51] ^ R[i+62] of the register R
\* before the refill, so none depends on another new bit of the same refill.
C13_RefillFeedback ==
    [][\A i \in Inst :
          Refilled(i) =>
              /\ fresh'[i] \in 0 .. 255
              /\ \A k \in 0 .. 7 : BitOf(fresh'[i], k) = Feedback(state[i], k)
              /\ \A k \in 0 .. 7 : state'[i][72 + k] = Feedback(state[i], k)]_vars

\* a refill made by a raw-bit read has produced both 0 and 1 bits
C13_Witness ==
    /\ refills[1] > WARMUP_ROUNDS
    /\ nraw[1] >= 1
    /\ fresh[1] \notin {0, 255}
    /\ \A k \in 0 .. 7 : state[1][72 + k] = BitOf(fresh[1], k)

\* a step in which instance i read a raw bit
RawRead(i) == nraw'[i] # nraw[i]

\* C14 - refill and read ordering: after construction a raw-bit read refills
\* first exactly when the cursor is 80, returns the register bit at the cursor
\* and advances the cursor by 1; there is one refill per 8 raw-bit reads, and
\* the 8 reads after a refill return that refill's new bits in the order
\* i = 0..7, each once, never an older register bit.
C14_RefillReadOrder ==
    /\ [](\A i \in Inst :
            Constructed(i) =>
                /\ refills[i] = WARMUP_ROUNDS + (nraw[i] + 7) \div 8
                /\ next_bit[i] = IF nraw[i] % 8 = 0 THEN 80 ELSE 72 + (nraw[i] % 8)
                /\ rawlog[i] # <<>> =>
                       /\ Last(rawlog[i]) = BitOf(fresh[i], (nraw[i] - 1) % 8)
                       /\ Last(rawlog[i]) = state[i][72 + ((nraw[i] - 1) % 8)])
    /\ [][\A i \in Inst :
            RawRead(i) =>
                LET cursor == IF next_bit[i] = 80 THEN 72 ELSE next_bit[i]
                IN  /\ Refilled(i) <=> next_bit[i] = 80
                    /\ Refilled(i) => refills'[i] = refills[i] + 1
                    /\ cursor \in 72 .. 79
                    /\ Last(rawlog'[i]) = state'[i][cursor]
                    /\ next_bit'[i] = cursor + 1]_vars

\* sixteen raw bits have been read from two refills whose new bits are neither
\* all 0 nor all 1, and the third refill has not started
C14_Witness ==
    /\ nraw[1] = 16
    /\ refills[1] = WARMUP_ROUNDS + 2
    /\ next_bit[1] = 80
    /\ rawlog[1] # <<>>
    /\ fresh[1] \notin {0, 255}
    /\ Last(rawlog[1]) = BitOf(fresh[1], 7)

\* C15 - no failure: every register index that seed encoding, a refill or a
\* raw-bit read uses lies in 0..79, and `next_bit - 8` never goes below 0
\* because a refill only ever starts with the cursor at 80.
C15_NoFailure ==
    /\ SeedIndices \subseteq 0 .. 79
    /\ RefillReadIndices \subseteq 0 .. 79
    /\ RefillWriteIndices \subseteq 0 .. 79
    /\ [](\A i \in Inst : pc[i] = "warmup" => next_bit[i] = 80)
    /\ [][\A i \in Inst :
            /\ Refilled(i) => next_bit[i] = 80 /\ next_bit[i] - 8 >= 0
            /\ RawRead(i) => (next_bit'[i] - 1) \in 0 .. 79]_vars

\* the warm-up refills and one refill by a read are done and the last read
\* took the register's last index, 79
C15_Witness ==
    /\ refills[1] = WARMUP_ROUNDS + 1
    /\ nraw[1] = 8
    /\ next_bit[1] = 80
    /\ rawlog[1] # <<>>
    /\ Last(rawlog[1]) = state[1][79]

\* the register with no 1 bit
ZeroRegister == [j \in 0 .. 79 |-> 0]

\* C16 - the register is never all-zero: once the seed is encoded, during the
\* warm-up and after any number of refills the register holds at least one 1
\* bit, and so does the register the next refill would leave. (An all-zero
\* register would be a fixed point of the refill.)
C16_NeverAllZero ==
    /\ load_next_8_bits([state |-> ZeroRegister, next_bit |-> 80]).state = ZeroRegister
    /\ \A i \in Inst :
           pc[i] # "init" =>
               /\ \E j \in 0 .. 79 : state[i][j] = 1
               /\ state[i] # ZeroRegister
               /\ load_next_8_bits(Self(i)).state # ZeroRegister

\* the warm-up and three further refills have replaced the seed's 1 bits at
\* 50..79 by computed bits, some of them 0, and a 1 remains
C16_Witness ==
    /\ Constructed(1)
    /\ refills[1] >= WARMUP_ROUNDS + 3
    /\ \E j \in 0 .. 79 : state[1][j] = 1
    /\ \E j \in 50 .. 79 : state[1][j] = 0

\* C17 - pair alignment: at every public-operation boundary after
\* construction the number of raw bits consumed is even and the cursor is one
\* of 72, 74, 76, 78, 80; a pair is read within one refill, so when its
\* control bit has been read the candidate bit is still in the register.
C17_PairAlignment ==
    \A i \in Inst :
        /\ pc[i] = "ready" =>
               /\ nraw[i] % 2 = 0
               /\ next_bit[i] \in {72, 74, 76, 78, 80}
        /\ pc[i] \in {"control", "from_repr"} => nraw[i] % 2 = 0
        /\ pc[i] \in {"discard", "output"} =>
               /\ nraw[i] % 2 = 1
               /\ next_bit[i] \in {73, 75, 77, 79}
               /\ refills[i] = WARMUP_ROUNDS + (nraw[i] + 1 + 7) \div 8

\* a query has returned in the middle of a refill's eight bits
C17_Witness ==
    /\ pc[1] = "ready"
    /\ out[1] # <<>>
    /\ nraw[1] > 8
    /\ next_bit[1] \in {74, 76, 78}

\* the slot (offset, len) of register st holds the low-order len bits of value
SlotHoldsLowBits(st, offset, len, value) ==
    \A k \in 0 .. (len - 1) : st[offset + k] = BitOf(value % Pow2(len), k)

\* registers st and su agree everywhere outside the slot (offset, len)
SameOutsideSlot(st, su, offset, len) ==
    \A j \in 0 .. 79 : (j < offset \/ j >= offset + len) => st[j] = su[j]

\* C18 - seed slot framing: for any 16-bit parameter values, also values that
\* exceed the slot width (t >= 2^12, r_f or r_p >= 2^10), a parameter changes
\* only the register bits of its own slot, of which it uses only the low-order
\* width-many bits; the other slots are unaffected and register bits 50..79
\* are all 1 when seed encoding finishes.
C18_SeedSlotFraming ==
    \A i \in Inst :
        Encoded(i) =>
            LET p == params[i]
                st == state[i]
            IN  /\ SlotHoldsLowBits(st, 0, 2, FieldType_PrimeOrder)
                /\ SlotHoldsLowBits(st, 2, 4, p.sbox)
                /\ SlotHoldsLowBits(st, 6, 12, p.F.NUM_BITS)
                /\ SlotHoldsLowBits(st, 18, 12, p.t)
                /\ SlotHoldsLowBits(st, 30, 10, p.r_f)
                /\ SlotHoldsLowBits(st, 40, 10, p.r_p)
                /\ \A j \in 50 .. 79 : st[j] = 1
                /\ \A t \in WideWidths :
                       SameOutsideSlot(st, SeedState(p.sbox, p.F, t, p.r_f, p.r_p), 18, 12)
                /\ \A r_f \in WideFullRounds :
                       SameOutsideSlot(st, SeedState(p.sbox, p.F, p.t, r_f, p.r_p), 30, 10)
                /\ \A r_p \in WidePartialRounds :
                       SameOutsideSlot(st, SeedState(p.sbox, p.F, p.t, p.r_f, r_p), 40, 10)

\* a seed has just been encoded whose t, r_f and r_p all exceed their slots
C18_Witness ==
    /\ Encoded(1)
    /\ params[1].t >= Pow2(12)
    /\ params[1].r_f >= Pow2(10)
    /\ params[1].r_p >= Pow2(10)
    /\ \A j \in 50 .. 79 : state[1][j] = 1

====
